---- MODULE Spec2Model ----
(***************************************************************************)
(* Name resolution and alias registration of squid.db.build_tags           *)
(* (BuildTagsManager).  The relational store holds, per taxonomy           *)
(* ("restriction", "type"), the canonical rows (id, name) and the alias    *)
(* rows (alias, owner id).  Every awaited storage statement is one atomic  *)
(* step; coroutines of different callers interleave between such steps.    *)
(* Strings are sequences of one-character strings.                         *)
(***************************************************************************)
EXTENDS Integers, Sequences, FiniteSets, TLC

VARIABLES names, aliases, procs, nops, cache, nqueries, fields, result

vars == <<names, aliases, procs, nops, cache, nqueries, fields, result>>

(* the raw tag strings of a build, per field, and their classification      *)
clsvars == <<fields, result>>

(* the alru_cache entries of fetch_all_restrictions / fetch_all_types and   *)
(* the number of storage queries they have issued                           *)
cachevars == <<cache, nqueries>>

(* ---------------------------- bounds ----------------------------------- *)

NumIds == 2
MaxOps == 2
MaxRaceOps == 3
MaxRaw == 4

Procs == {"p1", "p2"}
Taxonomies == {"restriction", "type"}
Ids == 1..NumIds
None == 0

(* Canonical names, and the strings callers pass.  "_" is the LIKE          *)
(* single-character wildcard; "a"/"A" differ in case only; "a" occurs in   *)
(* "aa" and "b", "c" occur in "bc".                                        *)
NameSet == { <<"b">>, <<"c">>, <<"b", "c">> }
TargetInputs == { <<"b">>, <<"c">>, <<"a", "a">> }
AliasInputs == { <<"a">>, <<"A">>, <<"a", "a">>, <<"_", "_">> }
Strings == { <<>>, <<"_", "_">>, <<"a">>, <<"b">> }

(* ---------------------------- strings ---------------------------------- *)

Lower(ch) == IF ch = "A" THEN "a" ELSE IF ch = "B" THEN "b" ELSE IF ch = "C" THEN "c" ELSE ch

(* SQL LIKE, case-insensitively: % matches any run of characters, _ any    *)
(* single character; the pattern is not escaped before it is sent.         *)
RECURSIVE LikeMatch(_, _)
LikeMatch(pat, str) ==
    IF pat = <<>> THEN str = <<>>
    ELSE IF Head(pat) = "%"
         THEN LikeMatch(Tail(pat), str) \/ (str # <<>> /\ LikeMatch(pat, Tail(str)))
         ELSE /\ str # <<>>
              /\ (Head(pat) = "_" \/ Lower(Head(pat)) = Lower(Head(str)))
              /\ LikeMatch(Tail(pat), Tail(str))

ILikeContains(column, s) == LikeMatch(<<"%">> \o s \o <<"%">>, column)

(* ---------------------------- queries ---------------------------------- *)

(* One call of get_restriction_id / get_type_id: waiting for the name      *)
(* query (q1), waiting for the alias query (q2), returned (ret) or raised   *)
(* MultipleResultsFound from scalar_one_or_none (exc).                      *)
Ret(v) == [st |-> "ret", val |-> v]
Exc == [st |-> "exc", val |-> None]
Q1 == [st |-> "q1", val |-> None]
Q2 == [st |-> "q2", val |-> None]
Off == [st |-> "off", val |-> None]

NameRows(tax, s) == {i \in Ids : ILikeContains(names[tax][i], s)}

AliasRows(tax, s) == {r \in aliases[tax] : ILikeContains(r.alias, s)}

NameStep(tax, s) ==
    LET rows == NameRows(tax, s) IN
    IF Cardinality(rows) > 1 THEN Exc
    ELSE IF rows # {} THEN Ret(CHOOSE i \in rows : TRUE)
    ELSE Q2

AliasStep(tax, s) ==
    LET rows == AliasRows(tax, s) IN
    IF Cardinality(rows) > 1 THEN Exc
    ELSE IF rows # {} THEN Ret((CHOOSE r \in rows : TRUE).id)
    ELSE Ret(None)

get_id(tax, s) ==
    LET first == NameStep(tax, s) IN
    IF first.st = "q2" THEN AliasStep(tax, s) ELSE first

(* ---------------------------- errors ----------------------------------- *)

NotFoundErr(tax) == IF tax = "restriction" THEN "RestrictionNotFound" ELSE "TypeNotFound"
AlreadyAddedErr(tax) == IF tax = "restriction" THEN "AliasAlreadyAdded" ELSE "TypeAliasAlreadyAdded"
TakenByOtherErr(tax) == IF tax = "restriction" THEN "AliasTakenByOther" ELSE "TypeAliasTakenByOther"

DomainErrors == { NotFoundErr(t) : t \in Taxonomies } \cup { AlreadyAddedErr(t) : t \in Taxonomies }
                \cup { TakenByOtherErr(t) : t \in Taxonomies }

Out(kind, str, id) == [kind |-> kind, str |-> str, id |-> id]
NoOut == Out("none", <<>>, None)

(* ---------------------------- processes -------------------------------- *)

(* ta resolves the target and tb the alias under asyncio.gather; tc is the  *)
(* re-resolution of the alias in the IntegrityError handler; ins counts the *)
(* commits attempted by the call.                                           *)
(* how tells what a fetch_all call found in the cache (miss, join of the    *)
(* computation in flight, hit) and snap is the list it returned.            *)
Idle == [pc |-> "idle", op |-> "none", tax |-> "restriction", target |-> <<>>, alias |-> <<>>,
         ta |-> Off, tb |-> Off, tc |-> Off, rid |-> None, ins |-> 0, out |-> NoOut,
         how |-> "none", snap |-> <<>>]

Empty == [st |-> "empty", val |-> <<>>]
Pending == [st |-> "pending", val |-> <<>>]
Cached(rows) == [st |-> "done", val |-> rows]

(* ---------------------------- classification --------------------------- *)

Fields == {"wiring_placement_restrictions", "component_restrictions",
           "miscellaneous_restrictions"}
FieldOrder == <<"wiring_placement_restrictions", "component_restrictions",
                "miscellaneous_restrictions">>

(* raw tag strings: with surrounding blanks, in another case, unknown *)
RawInputs == { <<"b">>, <<" ", "B", " ">>, <<"C">>, <<" ", "a">> }
RawSeqs == UNION { [1..n -> RawInputs] : n \in 0..MaxRaw }

NoResult == [matched |-> <<>>, unmatched |-> <<>>, set |-> FALSE]

(* The canonical rows are seeded before the process starts and are not     *)
(* written by this code; ids carry distinct names, both taxonomies are      *)
(* seeded with the same names, and no alias exists yet.                     *)
Init ==
    /\ \E cfg \in [Ids -> NameSet] :
         /\ \A i, j \in Ids : cfg[i] = cfg[j] => i = j
         /\ names = [t \in Taxonomies |-> cfg]
    /\ aliases = [t \in Taxonomies |-> {}]
    /\ procs = [p \in Procs |-> Idle]
    /\ nops = 0
    /\ cache = [t \in Taxonomies |-> Empty]
    /\ nqueries = [t \in Taxonomies |-> 0]
    /\ fields = [f \in Fields |-> <<>>]
    /\ result = NoResult

Call_get_id(p) ==
    /\ procs[p].pc = "idle"
    /\ nops < MaxOps
    /\ \E tax \in Taxonomies, s \in Strings :
         procs' = [procs EXCEPT ![p] = [Idle EXCEPT !.pc = "get", !.op = "get", !.tax = tax,
                                                    !.target = s, !.ta = Q1]]
    /\ nops' = nops + 1
    /\ UNCHANGED <<names, aliases, cachevars, clsvars>>

Call_add_alias(p) ==
    /\ procs[p].pc = "idle"
    /\ nops < MaxOps
    /\ \E tax \in Taxonomies, target \in TargetInputs, alias \in AliasInputs :
         procs' = [procs EXCEPT ![p] = [Idle EXCEPT !.pc = "gather", !.op = "add", !.tax = tax,
                                                    !.target = target, !.alias = alias,
                                                    !.ta = Q1, !.tb = Q1]]
    /\ nops' = nops + 1
    /\ UNCHANGED <<names, aliases, cachevars, clsvars>>

Key(p, t) == IF t = "ta" THEN procs[p].target ELSE procs[p].alias

Tasks == {"ta", "tb", "tc"}

Task(p, t) == IF t = "ta" THEN procs[p].ta ELSE IF t = "tb" THEN procs[p].tb ELSE procs[p].tc

SetTask(p, t, v) ==
    IF t = "ta" THEN [procs EXCEPT ![p].ta = v]
    ELSE IF t = "tb" THEN [procs EXCEPT ![p].tb = v]
    ELSE [procs EXCEPT ![p].tc = v]

Resolving(p) == procs[p].pc \in {"get", "gather", "recover"}

QueryName(p, t) ==
    /\ Resolving(p)
    /\ Task(p, t).st = "q1"
    /\ procs' = SetTask(p, t, NameStep(procs[p].tax, Key(p, t)))
    /\ UNCHANGED <<names, aliases, nops, cachevars, clsvars>>

QueryAlias(p, t) ==
    /\ Resolving(p)
    /\ Task(p, t).st = "q2"
    /\ procs' = SetTask(p, t, AliasStep(procs[p].tax, Key(p, t)))
    /\ UNCHANGED <<names, aliases, nops, cachevars, clsvars>>

Done(p, out) == [procs EXCEPT ![p].pc = "done", ![p].out = out]

Return_get_id(p) ==
    /\ procs[p].pc = "get"
    /\ procs[p].ta.st \in {"ret", "exc"}
    /\ procs' = Done(p, IF procs[p].ta.st = "exc"
                        THEN Out("MultipleResultsFound", procs[p].target, None)
                        ELSE Out("returned", procs[p].target, procs[p].ta.val))
    /\ UNCHANGED <<names, aliases, nops, cachevars, clsvars>>

(* Faulty variants of PreCheck: without the alias_rid == rid branch, with   *)
(* the target's id in AliasTakenByOther, and with the alias checks ahead of *)
(* the not-found check.                                                     *)
PreCheck_NoSameOwnerBranch(tax, name_or_alias, alias, rid, alias_rid) ==
    IF rid = None THEN Out(NotFoundErr(tax), name_or_alias, None)
    ELSE IF alias_rid # None THEN Out(TakenByOtherErr(tax), alias, alias_rid)
         ELSE NoOut

PreCheck_CarriesTargetId(tax, name_or_alias, alias, rid, alias_rid) ==
    IF rid = None THEN Out(NotFoundErr(tax), name_or_alias, None)
    ELSE IF alias_rid # None
         THEN IF alias_rid = rid
              THEN Out(AlreadyAddedErr(tax), alias, rid)
              ELSE Out(TakenByOtherErr(tax), alias, rid)
         ELSE NoOut

PreCheck_AliasFirst(tax, name_or_alias, alias, rid, alias_rid) ==
    IF alias_rid # None
    THEN IF alias_rid = rid
         THEN Out(AlreadyAddedErr(tax), alias, alias_rid)
         ELSE Out(TakenByOtherErr(tax), alias, alias_rid)
    ELSE IF rid = None THEN Out(NotFoundErr(tax), name_or_alias, None)
         ELSE NoOut

PreCheck(tax, name_or_alias, alias, rid, alias_rid) ==
    IF rid = None THEN Out(NotFoundErr(tax), name_or_alias, None)
    ELSE IF alias_rid # None
         THEN IF alias_rid = rid
              THEN Out(AlreadyAddedErr(tax), alias, rid)
              ELSE Out(TakenByOtherErr(tax), alias, alias_rid)
         ELSE NoOut

(* gather re-raises the first exception of either resolution at once; the  *)
(* other resolution only reads, and what it does afterwards is not seen.    *)
add_alias(p) ==
    LET q == procs[p]
        check == PreCheck(q.tax, q.target, q.alias, q.ta.val, q.tb.val)
    IN
    /\ q.pc = "gather"
    /\ \/ q.ta.st = "exc"
       \/ q.tb.st = "exc"
       \/ q.ta.st = "ret" /\ q.tb.st = "ret"
    /\ procs' =
         IF q.ta.st = "exc" \/ q.tb.st = "exc"
         THEN Done(p, Out("MultipleResultsFound", <<>>, None))
         ELSE IF check # NoOut THEN Done(p, check)
         ELSE [procs EXCEPT ![p].pc = "insert", ![p].rid = q.ta.val]
    /\ UNCHANGED <<names, aliases, nops, cachevars, clsvars>>

(* The alias column is unique per alias table, compared as stored.         *)
UniqueViolation(tax, alias) == \E r \in aliases[tax] : r.alias = alias

(* The owner column of an alias row references a canonical row.            *)
ForeignKeyViolation(tax, id) == id \notin Ids

(* Faulty variants of add_alias_by_id: the row is written whether or not   *)
(* the alias is already stored; the alias is stored in lower case; a        *)
(* rejected alias is re-bound to the caller's id.                           *)
add_alias_by_id_Folded(p) ==
    LET q == procs[p]
        folded == [i \in 1..Len(q.alias) |-> Lower(q.alias[i])]
    IN
    /\ q.pc = "insert"
    /\ IF UniqueViolation(q.tax, q.alias) \/ ForeignKeyViolation(q.tax, q.rid)
       THEN /\ procs' = [procs EXCEPT ![p].pc = "recover", ![p].ins = q.ins + 1,
                                       ![p].tc = Q1]
            /\ UNCHANGED aliases
       ELSE /\ aliases' = [aliases EXCEPT ![q.tax] = @ \cup {[alias |-> folded, id |-> q.rid]}]
            /\ procs' = [procs EXCEPT ![p].pc = "done", ![p].ins = q.ins + 1,
                                       ![p].out = Out("ok", q.alias, q.rid)]
    /\ UNCHANGED <<names, nops, cachevars, clsvars>>

add_alias_by_id_Rebinds(p) ==
    LET q == procs[p] IN
    /\ q.pc = "insert"
    /\ IF UniqueViolation(q.tax, q.alias) \/ ForeignKeyViolation(q.tax, q.rid)
       THEN /\ procs' = [procs EXCEPT ![p].pc = "recover", ![p].ins = q.ins + 1,
                                       ![p].tc = Q1]
            /\ aliases' = [aliases EXCEPT ![q.tax] =
                             {r \in @ : r.alias # q.alias} \cup {[alias |-> q.alias, id |-> q.rid]}]
       ELSE /\ aliases' = [aliases EXCEPT ![q.tax] = @ \cup {[alias |-> q.alias, id |-> q.rid]}]
            /\ procs' = [procs EXCEPT ![p].pc = "done", ![p].ins = q.ins + 1,
                                       ![p].out = Out("ok", q.alias, q.rid)]
    /\ UNCHANGED <<names, nops, cachevars, clsvars>>

add_alias_by_id_Unchecked(p) ==
    LET q == procs[p] IN
    /\ q.pc = "insert"
    /\ aliases' = [aliases EXCEPT ![q.tax] = @ \cup {[alias |-> q.alias, id |-> q.rid]}]
    /\ procs' = [procs EXCEPT ![p].pc = "done", ![p].ins = q.ins + 1,
                               ![p].out = Out("ok", q.alias, q.rid)]
    /\ UNCHANGED <<names, nops, cachevars, clsvars>>

add_alias_by_id(p) ==
    LET q == procs[p] IN
    /\ q.pc = "insert"
    /\ IF UniqueViolation(q.tax, q.alias) \/ ForeignKeyViolation(q.tax, q.rid)
       THEN /\ procs' = [procs EXCEPT ![p].pc = "recover", ![p].ins = q.ins + 1,
                                       ![p].tc = Q1]
            /\ UNCHANGED aliases
       ELSE /\ aliases' = [aliases EXCEPT ![q.tax] = @ \cup {[alias |-> q.alias, id |-> q.rid]}]
            /\ procs' = [procs EXCEPT ![p].pc = "done", ![p].ins = q.ins + 1,
                                       ![p].out = Out("ok", q.alias, q.rid)]
    /\ UNCHANGED <<names, nops, cachevars, clsvars>>

(* Faulty variant of the handler: the insert is tried again.                *)
IntegrityError_handler_Retries(p) ==
    /\ procs[p].pc = "recover"
    /\ procs[p].tc.st \in {"ret", "exc"}
    /\ procs' = [procs EXCEPT ![p].pc = "insert", ![p].tc = Off]
    /\ UNCHANGED <<names, aliases, nops, cachevars, clsvars>>

IntegrityError_handler(p) ==
    LET q == procs[p]
        alias_rid == q.tc.val
    IN
    /\ q.pc = "recover"
    /\ q.tc.st \in {"ret", "exc"}
    /\ procs' =
         IF q.tc.st = "exc" THEN Done(p, Out("MultipleResultsFound", q.alias, None))
         ELSE IF alias_rid = None THEN Done(p, Out("AssertionError", q.alias, None))
         ELSE Done(p, Out(AlreadyAddedErr(q.tax), q.alias, alias_rid))
    /\ UNCHANGED <<names, aliases, nops, cachevars, clsvars>>

Finish(p) ==
    /\ procs[p].pc = "done"
    /\ procs' = [procs EXCEPT ![p] = Idle]
    /\ UNCHANGED <<names, aliases, nops, cachevars, clsvars>>

Next ==
    \E p \in Procs :
        \/ Call_get_id(p)
        \/ Call_add_alias(p)
        \/ \E t \in Tasks : QueryName(p, t)
        \/ \E t \in Tasks : QueryAlias(p, t)
        \/ Return_get_id(p)
        \/ add_alias(p)
        \/ add_alias_by_id(p)
        \/ IntegrityError_handler(p)
        \/ Finish(p)

Spec == Init /\ [][Next]_vars

(* Callers that only register restriction aliases, one call after another. *)
Call_add_restriction_alias(p) ==
    /\ procs[p].pc = "idle"
    /\ nops < MaxRaceOps
    /\ \E target \in TargetInputs, alias \in AliasInputs :
         procs' = [procs EXCEPT ![p] = [Idle EXCEPT !.pc = "gather", !.op = "add",
                                                    !.tax = "restriction",
                                                    !.target = target, !.alias = alias,
                                                    !.ta = Q1, !.tb = Q1]]
    /\ nops' = nops + 1
    /\ UNCHANGED <<names, aliases, cachevars, clsvars>>

NextRace ==
    \E p \in Procs :
        \/ Call_add_restriction_alias(p)
        \/ \E t \in Tasks : QueryName(p, t)
        \/ \E t \in Tasks : QueryAlias(p, t)
        \/ add_alias(p)
        \/ add_alias_by_id(p)
        \/ IntegrityError_handler(p)
        \/ Finish(p)

SpecRace == Init /\ [][NextRace]_vars

(* ---------------------------- batch classifier ------------------------- *)

RECURSIVE TrimLeft(_)
TrimLeft(s) == IF s # <<>> /\ Head(s) = " " THEN TrimLeft(Tail(s)) ELSE s

RECURSIVE TrimRight(_)
TrimRight(s) ==
    IF s # <<>> /\ s[Len(s)] = " " THEN TrimRight(SubSeq(s, 1, Len(s) - 1)) ELSE s

Trim(s) == TrimRight(TrimLeft(s))

Normalize(s) == LET t == Trim(s) IN [i \in 1..Len(t) |-> Lower(t[i])]

(* ids of the canonical entities whose name equals the raw string after    *)
(* trimming and case folding                                                *)
Matches(reference, raw) ==
    {i \in DOMAIN reference : Normalize(reference[i]) = Normalize(raw)}

Has(seq, x) == \E k \in 1..Len(seq) : seq[k] = x

(* Faulty variant of AddOnce: the entity is appended at every reference.    *)
AddOnce_Always(acc, ids) == IF ids = {} THEN acc ELSE Append(acc, CHOOSE i \in ids : TRUE)

RECURSIVE AddOnce(_, _)
AddOnce(acc, ids) ==
    IF ids = {} THEN acc
    ELSE LET i == CHOOSE j \in ids : \A k \in ids : j <= k IN
         AddOnce(IF Has(acc, i) THEN acc ELSE Append(acc, i), ids \ {i})

RECURSIVE MatchAll(_, _, _)
MatchAll(acc, reference, raws) ==
    IF raws = <<>> THEN acc
    ELSE MatchAll(AddOnce(acc, Matches(reference, Head(raws))), reference, Tail(raws))

(* Faulty variant of Leftovers: the strings are kept as typed.              *)
RECURSIVE Leftovers_Untrimmed(_, _)
Leftovers_Untrimmed(reference, raws) ==
    IF raws = <<>> THEN <<>>
    ELSE IF Matches(reference, Head(raws)) = {}
         THEN <<Head(raws)>> \o Leftovers_Untrimmed(reference, Tail(raws))
         ELSE Leftovers_Untrimmed(reference, Tail(raws))

RECURSIVE Leftovers(_, _)
Leftovers(reference, raws) ==
    IF raws = <<>> THEN <<>>
    ELSE IF Matches(reference, Head(raws)) = {}
         THEN <<Trim(Head(raws))>> \o Leftovers(reference, Tail(raws))
         ELSE Leftovers(reference, Tail(raws))

Classify(byField, reference) ==
    LET all == byField[FieldOrder[1]] \o byField[FieldOrder[2]] \o byField[FieldOrder[3]]
        left == [f \in Fields |-> Leftovers(reference, byField[f])]
        kept == {f \in Fields : left[f] # <<>>}
    IN [matched |-> MatchAll(<<>>, reference, all),
        unmatched |-> [f \in kept |-> left[f]],
        set |-> TRUE]

classify ==
    /\ ~result.set
    /\ result' = Classify(fields, names["restriction"])
    /\ UNCHANGED <<names, aliases, procs, nops, cachevars, fields>>

InitClassify ==
    /\ \E cfg \in [Ids -> NameSet] :
         /\ \A i, j \in Ids : cfg[i] = cfg[j] => i = j
         /\ names = [t \in Taxonomies |-> cfg]
    /\ aliases = [t \in Taxonomies |-> {}]
    /\ procs = [p \in Procs |-> Idle]
    /\ nops = 0
    /\ cache = [t \in Taxonomies |-> Empty]
    /\ nqueries = [t \in Taxonomies |-> 0]
    /\ \E all \in RawSeqs : \E i \in 0..Len(all) : \E j \in i..Len(all) :
         fields = [f \in Fields |->
                     IF f = FieldOrder[1] THEN SubSeq(all, 1, i)
                     ELSE IF f = FieldOrder[2] THEN SubSeq(all, i + 1, j)
                     ELSE SubSeq(all, j + 1, Len(all))]
    /\ result = NoResult

NextClassify == classify

SpecClassify == InitClassify /\ [][NextClassify]_vars

(* ---------------------------- reference cache -------------------------- *)

(* alru_cache: a call that finds no entry starts the computation and stores *)
(* its future; a call that finds the future waits for it or takes its       *)
(* result.  Faulty variant: only finished results are reused.               *)
Call_fetch_all_NoSharing(p) ==
    /\ procs[p].pc = "idle"
    /\ nops < MaxOps
    /\ \E tax \in Taxonomies :
         IF cache[tax].st # "done"
         THEN /\ procs' = [procs EXCEPT ![p] = [Idle EXCEPT !.pc = "fetch_query", !.op = "fetch",
                                                            !.tax = tax, !.how = "miss"]]
              /\ cache' = [cache EXCEPT ![tax] = Pending]
         ELSE /\ procs' = [procs EXCEPT ![p] = [Idle EXCEPT !.pc = "fetch_wait", !.op = "fetch",
                                                            !.tax = tax, !.how = "hit"]]
              /\ UNCHANGED cache
    /\ nops' = nops + 1
    /\ UNCHANGED <<names, aliases, nqueries, clsvars>>

Call_fetch_all(p) ==
    /\ procs[p].pc = "idle"
    /\ nops < MaxOps
    /\ \E tax \in Taxonomies :
         IF cache[tax].st = "empty"
         THEN /\ procs' = [procs EXCEPT ![p] = [Idle EXCEPT !.pc = "fetch_query", !.op = "fetch",
                                                            !.tax = tax, !.how = "miss"]]
              /\ cache' = [cache EXCEPT ![tax] = Pending]
         ELSE /\ procs' = [procs EXCEPT ![p] = [Idle EXCEPT !.pc = "fetch_wait", !.op = "fetch",
                                                            !.tax = tax,
                                                            !.how = IF cache[tax].st = "pending"
                                                                    THEN "join" ELSE "hit"]]
              /\ UNCHANGED cache
    /\ nops' = nops + 1
    /\ UNCHANGED <<names, aliases, nqueries, clsvars>>

(* session.execute(select(Restriction)) of the computation in flight        *)
fetch_all_query(p) ==
    LET tax == procs[p].tax IN
    /\ procs[p].pc = "fetch_query"
    /\ nqueries' = [nqueries EXCEPT ![tax] = @ + 1]
    /\ cache' = [cache EXCEPT ![tax] = Cached(names[tax])]
    /\ procs' = [procs EXCEPT ![p].pc = "done", ![p].out = Out("fetched", <<>>, None),
                               ![p].snap = names[tax]]
    /\ UNCHANGED <<names, aliases, nops, clsvars>>

(* Faulty variant: a call that finds the entry reads the rows again.        *)
Return_fetch_all_Fresh(p) ==
    LET tax == procs[p].tax IN
    /\ procs[p].pc = "fetch_wait"
    /\ cache[tax].st = "done"
    /\ procs' = [procs EXCEPT ![p].pc = "done", ![p].out = Out("fetched", <<>>, None),
                               ![p].snap = names[tax]]
    /\ UNCHANGED <<names, aliases, nops, cachevars, clsvars>>

Return_fetch_all(p) ==
    LET tax == procs[p].tax IN
    /\ procs[p].pc = "fetch_wait"
    /\ cache[tax].st = "done"
    /\ procs' = [procs EXCEPT ![p].pc = "done", ![p].out = Out("fetched", <<>>, None),
                               ![p].snap = cache[tax].val]
    /\ UNCHANGED <<names, aliases, nops, cachevars, clsvars>>

(* The administrative process outside this code renames a canonical row.   *)
(* Renames made before the list is first computed amount to another seed;  *)
(* one rename after it is what a cached list can miss.                      *)
AdminWrite ==
    /\ \E tax \in Taxonomies, i \in Ids, n \in NameSet :
         /\ cache[tax] = Cached(names[tax])
         /\ \A j \in Ids : names[tax][j] # n
         /\ names' = [names EXCEPT ![tax][i] = n]
    /\ UNCHANGED <<aliases, procs, nops, cachevars, clsvars>>

NextCache ==
    \/ AdminWrite
    \/ \E p \in Procs :
        \/ Call_fetch_all(p)
        \/ fetch_all_query(p)
        \/ Return_fetch_all(p)
        \/ Call_add_alias(p)
        \/ \E t \in Tasks : QueryName(p, t)
        \/ \E t \in Tasks : QueryAlias(p, t)
        \/ add_alias(p)
        \/ add_alias_by_id(p)
        \/ IntegrityError_handler(p)
        \/ Finish(p)

SpecCache == Init /\ [][NextCache]_vars

(* add_restriction_alias_by_id / add_type_alias_by_id called on their own,  *)
(* with any id, also one of no canonical row.                               *)
IdInputs == 1..(NumIds + 1)

Call_add_alias_by_id(p) ==
    /\ procs[p].pc = "idle"
    /\ nops < MaxOps
    /\ \E tax \in Taxonomies, id \in IdInputs, alias \in AliasInputs :
         procs' = [procs EXCEPT ![p] = [Idle EXCEPT !.pc = "insert", !.op = "by_id", !.tax = tax,
                                                    !.alias = alias, !.rid = id]]
    /\ nops' = nops + 1
    /\ UNCHANGED <<names, aliases, cachevars, clsvars>>

NextById == Next \/ \E p \in Procs : Call_add_alias_by_id(p)

SpecById == Init /\ [][NextById]_vars

TypeOK ==
    /\ names \in [Taxonomies -> [Ids -> NameSet]]
    /\ \A t \in Taxonomies : \A r \in aliases[t] : r.id \in Ids
    /\ nops \in Nat

(* ---------------------------- properties ------------------------------- *)

Fold(s) == [i \in 1..Len(s) |-> Lower(s[i])]

(* s occurs in column as a contiguous run of characters, ignoring case *)
Contains(column, s) ==
    \E k \in 0..(Len(column) - Len(s)) :
        \A j \in 1..Len(s) : Lower(column[k + j]) = Lower(s[j])

Finished(p, op) == procs[p].pc = "done" /\ procs[p].op = op

(* the insert of the call was rejected by the uniqueness constraint *)
Rejected(p) == Finished(p, "add") /\ procs[p].ins = 1 /\ procs[p].out.kind # "ok"

(* both resolutions of the gather returned a value (an id or None) *)
Gathered(p) == Finished(p, "add") /\ procs[p].ta.st = "ret" /\ procs[p].tb.st = "ret"

(* C1: a call whose insert was rejected by the uniqueness constraint ends   *)
(* with AliasAlreadyAdded when the re-resolved owner of the alias is the    *)
(* caller's target id and with AliasTakenByOther carrying the owner's id    *)
(* when the owner is another entity, for both taxonomies.                   *)
C1_ConflictRaisesByOwner ==
    \A p \in Procs :
        Rejected(p) =>
            LET q == procs[p] IN
            /\ q.tc.st = "ret"
            /\ q.tc.val # None
            /\ q.out = IF q.tc.val = q.rid
                       THEN Out(AlreadyAddedErr(q.tax), q.alias, q.rid)
                       ELSE Out(TakenByOtherErr(q.tax), q.alias, q.tc.val)

(* C2: no two restriction-alias rows owned by different restrictions have   *)
(* alias strings that are equal ignoring case.                              *)
C2_NoCaseInsensitiveClash ==
    \A r1, r2 \in aliases["restriction"] :
        Fold(r1.alias) = Fold(r2.alias) => r1.id = r2.id

(* C3: while a successful add_restriction_alias(target, newAlias) is        *)
(* completed, resolving newAlias returns the id the target resolved to,     *)
(* whatever other calls ran beside it or completed after it.                *)
C3_AddedAliasResolves ==
    \A p \in Procs :
        (Finished(p, "add") /\ procs[p].tax = "restriction" /\ procs[p].out.kind = "ok")
            => get_id("restriction", procs[p].alias) = Ret(procs[p].rid)

(* C4: resolving the name of a canonical restriction returns its id.        *)
C4_NameResolvesToOwnId ==
    \A i \in Ids : get_id("restriction", names["restriction"][i]) = Ret(i)

(* C5: resolving the alias of a restriction-alias row returns the row's     *)
(* restriction id.                                                          *)
C5_AliasResolvesToOwner ==
    \A r \in aliases["restriction"] : get_id("restriction", r.alias) = Ret(r.id)

(* C6: a resolution in which a search step matched more than one row ends   *)
(* with a failure of its own kind: not a returned id, not one of the        *)
(* not-found or alias-registration errors, and not an error of the storage  *)
(* library.                                                                 *)
LibraryErrors == {"MultipleResultsFound", "AssertionError"}

C6_AmbiguousIsDistinctDomainFailure ==
    \A p \in Procs :
        (Finished(p, "get") /\ procs[p].ta.st = "exc")
            => /\ procs[p].out.kind # "returned"
               /\ procs[p].out.kind \notin DomainErrors
               /\ procs[p].out.kind \notin LibraryErrors

(* C7: resolving a string that occurs, ignoring case, in no canonical name  *)
(* and in no alias of the taxonomy returns None and raises nothing.         *)
NoSubstringMatch(tax, s) ==
    /\ \A i \in Ids : ~Contains(names[tax][i], s)
    /\ \A r \in aliases[tax] : ~Contains(r.alias, s)

C7_NoMatchReturnsNone ==
    \A p \in Procs :
        (Finished(p, "get") /\ procs[p].tax = "restriction"
                            /\ NoSubstringMatch("restriction", procs[p].target))
            => procs[p].out = Out("returned", procs[p].target, None)

(* C8: add_restriction_alias whose two resolutions returned the same id     *)
(* ends with AliasAlreadyAdded carrying the alias and that id, and has      *)
(* attempted no insert.                                                     *)
C8_SameOwnerAlreadyAdded ==
    \A p \in Procs :
        LET q == procs[p] IN
        (Gathered(p) /\ q.tax = "restriction" /\ q.ta.val # None /\ q.tb.val = q.ta.val)
            => /\ q.out = Out("AliasAlreadyAdded", q.alias, q.ta.val)
               /\ q.ins = 0

(* a call found its alias already bound, by an alias row, to its own target *)
C8_Witness ==
    \E p \in Procs :
        LET q == procs[p] IN
        /\ Gathered(p) /\ q.tax = "restriction"
        /\ q.ta.val # None /\ q.tb.val = q.ta.val
        /\ \E r \in aliases["restriction"] : r.id = q.tb.val /\ Contains(r.alias, q.alias)
        /\ q.out.kind = "AliasAlreadyAdded"

(* C9: add_restriction_alias whose alias resolved to an id other than the   *)
(* target's ends with AliasTakenByOther carrying the alias and the other    *)
(* id, and has attempted no insert.                                         *)
C9_OtherOwnerTakenByOther ==
    \A p \in Procs :
        LET q == procs[p] IN
        (Gathered(p) /\ q.tax = "restriction" /\ q.ta.val # None
                     /\ q.tb.val # None /\ q.tb.val # q.ta.val)
            => /\ q.out = Out("AliasTakenByOther", q.alias, q.tb.val)
               /\ q.ins = 0

(* a call found its alias bound, by an alias row, to another restriction    *)
C9_Witness ==
    \E p \in Procs :
        LET q == procs[p] IN
        /\ Gathered(p) /\ q.tax = "restriction"
        /\ q.ta.val # None /\ q.tb.val # None /\ q.tb.val # q.ta.val
        /\ \E r \in aliases["restriction"] : r.id = q.tb.val /\ Contains(r.alias, q.alias)
        /\ q.out.kind = "AliasTakenByOther"

C11_AliasBoundOnce ==
    \A t \in Taxonomies :
        \A r1, r2 \in aliases[t] : r1.alias = r2.alias => r1.id = r2.id

(* two calls for one alias string and different targets both reached their  *)
(* commit; one row is stored                                                *)
C11_Witness ==
    \E p, q \in Procs :
        /\ p # q
        /\ procs[p].op = "add" /\ procs[q].op = "add"
        /\ procs[p].tax = procs[q].tax /\ procs[p].alias = procs[q].alias
        /\ procs[p].rid # procs[q].rid
        /\ procs[p].ins = 1 /\ procs[q].ins = 1
        /\ Cardinality(aliases[procs[p].tax]) = 1

(* C12: of the add_restriction_alias calls for one new alias string that    *)
(* run concurrently one succeeds and stores its row; every call whose       *)
(* insert is rejected ends with AliasAlreadyAdded or AliasTakenByOther, and *)
(* the alias is stored once.                                                *)
C12_OneWinnerOthersDomainError ==
    /\ \A p \in Procs :
          Rejected(p) => procs[p].out.kind \in {AlreadyAddedErr(procs[p].tax),
                                                TakenByOtherErr(procs[p].tax)}
    /\ \A p, q \in Procs :
          (/\ p # q
           /\ Finished(p, "add") /\ Finished(q, "add")
           /\ procs[p].tax = procs[q].tax /\ procs[p].alias = procs[q].alias
           /\ procs[p].ins = 1 /\ procs[q].ins = 1)
              => (procs[p].out.kind = "ok") # (procs[q].out.kind = "ok")
    /\ \A r1, r2 \in aliases["restriction"] : r1.alias = r2.alias => r1 = r2

Other(tax) == IF tax = "restriction" THEN "type" ELSE "restriction"

(* the step in which the add-alias call of p returns successfully *)
Succeeds(p) ==
    /\ procs[p].op = "add"
    /\ procs[p].pc # "done"
    /\ procs'[p].pc = "done"
    /\ procs'[p].out.kind = "ok"

(* C13: the step in which an add-alias call succeeds adds the one row       *)
(* (alias, id the target resolved to) to the alias table of its taxonomy,   *)
(* keeps every row that was there, and changes neither the other alias      *)
(* table nor the canonical rows.                                            *)
C13_SuccessAddsOneRow ==
    [][\A p \in Procs :
         Succeeds(p) =>
            LET q == procs[p]
                row == [alias |-> q.alias, id |-> q.ta.val]
            IN
            /\ row \notin aliases[q.tax]
            /\ aliases'[q.tax] = aliases[q.tax] \cup {row}
            /\ Cardinality(aliases'[q.tax]) = Cardinality(aliases[q.tax]) + 1
            /\ aliases'[Other(q.tax)] = aliases[Other(q.tax)]
            /\ names' = names]_vars

(* a successful add-alias call stored an alias that has an upper-case       *)
(* letter, as it was given                                                  *)
C13_Witness ==
    \E p \in Procs :
        /\ Finished(p, "add") /\ procs[p].out.kind = "ok"
        /\ procs[p].alias # Fold(procs[p].alias)
        /\ [alias |-> procs[p].alias, id |-> procs[p].ta.val] \in aliases[procs[p].tax]

(* C18: a step that changes an alias table is the successful commit of an   *)
(* add-alias call; every other step (a resolution, a failing add-alias      *)
(* call, the rejected insert and its recovery) leaves both tables as they   *)
(* were, and no step removes or changes a row.                              *)
C18_AliasRowsOnlyAdded ==
    [][/\ \A t \in Taxonomies : aliases[t] \subseteq aliases'[t]
       /\ aliases' # aliases => \E p \in Procs : Succeeds(p)
       /\ \A p \in Procs :
             (procs[p].pc # "done" /\ procs'[p].pc = "done" /\ procs'[p].out.kind # "ok")
                => aliases' = aliases]_vars

(* an add-alias call whose insert was rejected has ended while the row of   *)
(* the winner is still stored with its owner                                *)
C18_Witness ==
    \E p \in Procs :
        /\ Rejected(p)
        /\ \E r \in aliases[procs[p].tax] : r.alias = procs[p].alias /\ r.id # procs[p].rid

(* C19: an add-alias call attempts at most one insert; after a rejected     *)
(* insert it re-resolves the alias and ends with an error, and it reaches   *)
(* the insert only from the pre-checks, never from the recovery.            *)
C19_AtMostOneInsert ==
    \A p \in Procs :
        LET q == procs[p] IN
        /\ q.ins <= 1
        /\ q.pc = "insert" => q.ins = 0 /\ q.tc = Off
        /\ q.pc = "recover" => q.ins = 1
        /\ (q.pc = "done" /\ q.tc # Off) => q.ins = 1 /\ q.out.kind # "ok"
        /\ (q.pc = "done" /\ q.op = "add" /\ q.out.kind \in DomainErrors /\ q.tc = Off)
              => q.ins = 0

(* a call ended with an error after its one insert was rejected *)
C19_Witness ==
    \E p \in Procs : Rejected(p) /\ procs[p].tc.st = "ret" /\ procs[p].ins = 1

C15_SnapshotKept ==
    [][/\ \A t \in Taxonomies :
             cache[t].st = "done" => cache'[t] = cache[t] /\ nqueries'[t] = nqueries[t]
       /\ \A p \in Procs :
             (procs[p].pc = "fetch_wait" /\ procs'[p].pc = "done")
                => procs'[p].snap = cache[procs[p].tax].val]_vars

(* a call made after the entry was computed returned it although a          *)
(* canonical row has been renamed since                                     *)
C15_Witness ==
    \E p \in Procs :
        /\ Finished(p, "fetch") /\ procs[p].how = "hit"
        /\ procs[p].snap # names[procs[p].tax]

(* C16: classify partitions its input: an entity is matched exactly when   *)
(* some raw string, trimmed, equals its name ignoring case; every other     *)
(* raw string is listed, trimmed and in order, under its own field; and a   *)
(* field with no such string is absent from the unmatched mapping.          *)
Known(raw) ==
    \E i \in Ids : Fold(Trim(raw)) = Fold(names["restriction"][i])

Unknowns(f) ==
    LET Test(raw) == ~Known(raw)
        sel == SelectSeq(fields[f], Test)
    IN [k \in 1..Len(sel) |-> Trim(sel[k])]

C16_ClassifyPartitions ==
    result.set =>
        /\ {result.matched[k] : k \in 1..Len(result.matched)}
             = {i \in Ids : \E f \in Fields : \E k \in 1..Len(fields[f]) :
                                Fold(Trim(fields[f][k])) = Fold(names["restriction"][i])}
        /\ DOMAIN result.unmatched = {f \in Fields : \E k \in 1..Len(fields[f]) :
                                                        ~Known(fields[f][k])}
        /\ \A f \in DOMAIN result.unmatched : result.unmatched[f] = Unknowns(f)

(* a classification with a match that needed trimming and case folding, an  *)
(* unmatched string that needed trimming, and a field left out              *)
C16_Witness ==
    /\ result.set
    /\ Len(result.matched) > 0
    /\ \E f \in Fields : Has(fields[f], <<" ", "B", " ">>) /\ Known(<<" ", "B", " ">>)
    /\ \E f \in DOMAIN result.unmatched : Has(result.unmatched[f], <<"a">>)
    /\ DOMAIN result.unmatched # Fields

(* C17: no canonical entity occurs twice in the matched result.             *)
C17_MatchedOnce ==
    \A j, k \in 1..Len(result.matched) :
        result.matched[j] = result.matched[k] => j = k

(* an entity referenced from two fields and by two spellings in one field   *)
(* has been matched                                                         *)
C17_Witness ==
    /\ result.set
    /\ \E i \in Ids :
         /\ Has(result.matched, i)
         /\ \E f, g \in Fields :
              /\ f # g
              /\ \E k \in 1..Len(fields[f]) : i \in Matches(names["restriction"], fields[f][k])
              /\ \E j, k \in 1..Len(fields[g]) :
                   /\ fields[g][j] # fields[g][k]
                   /\ i \in Matches(names["restriction"], fields[g][j])
                   /\ i \in Matches(names["restriction"], fields[g][k])

(* C20: the assertion of the IntegrityError handler holds: after a rejected *)
(* insert the re-resolution of the alias returns an id, not None and not an *)
(* exception, whatever id the call was given.                               *)
C20_AssertHolds ==
    \A p \in Procs :
        (procs[p].pc = "done" /\ procs[p].tc.st # "off")
            => procs[p].tc.st = "ret" /\ procs[p].tc.val # None

====
